---- MODULE Spec2Model ----
(***************************************************************************)
(* Module 2 image-detection handler, in its two variants:                  *)
(*   "ts"   functions/typescript/modules/module2/index.ts                  *)
(*   "java" functions/java/.../Module2HandlerComplete.java                 *)
(* A deployed function receives batches of DynamoDB stream records.  For   *)
(* each record it calls getLabels; on a "no person"/"no labels" error it   *)
(* looks up the API URL (parameter store) and the API key (secret store)   *)
(* and calls reportImageIssue.  Every external call is modelled by a start *)
(* event and an end event, so that ordering and overlap are visible.       *)
(***************************************************************************)
EXTENDS Integers, Sequences, FiniteSets, TLC

\* ---- bounds of the model ----
MaxRecords == 3
TickSeconds == 450

\* a batch of n records; record i carries file id i
Batch(n) == [i \in 1..n |-> i]
Batches == {Batch(n) : n \in 0..MaxRecords}

\* ---- program constants ----
Langs == {"ts", "java"}
MaxAge == 900
NoEntry == -1
GenericError == "Error processing record"

SoftErrors == {"NoPersonFoundError", "NoLabelsFoundError"}
HardErrors == {"ServiceError", "TypeError"}
LabelOutcomes == {"ok"} \cup SoftErrors \cup HardErrors

\* What the store answers for the requested name:
\*   notfound     the client call rejects (no such parameter / secret)
\*   empty        the response carries no (or an empty) Value / SecretString
\*   jsonWithKey  a JSON object holding the requested name as a key
\*   jsonNoKey    a JSON object without that key
\*   notJson      a string that JSON.parse rejects
\* The Java variant does not parse the stored string: there the store either
\* has no entry or holds a raw string.
StoreKinds == {"notfound", "empty", "jsonWithKey", "jsonNoKey", "notJson"}
StoreKindsOf(l) == IF l = "ts" THEN StoreKinds ELSE {"notfound", "raw"}

VARIABLES
    lang,         \* which variant is deployed
    paramStore,   \* content of the parameter store under API_URL_PARAMETER_NAME
    secretStore,  \* content of the secret store under API_KEY_SECRET_NAME
    records,      \* event.Records of the current invocation (file ids)
    redelivered,  \* this batch has been delivered to the handler before
    idx,          \* position of the record being processed
    pc,           \* where the handler is: idle, labels, param, secret, report, done
    inflight,     \* external calls started and not yet returned
    trace,        \* start/end events of the external calls of this invocation
    labels,       \* outcome of getLabels, per attempted record
    errs,         \* error leaving the record processor ("none"), per finished record
    apiUrl,       \* the credential pair of the current soft-failure branch
    apiKey,
    result,       \* outcome of the handler invocation: none, ok, or an error message
    paramReads,   \* reads of the parameter store made in this invocation
    secretReads,  \* reads of the secret store made in this invocation
    paramCache,   \* age in seconds of the provider's cached parameter (NoEntry: none)
    secretCache   \* age in seconds of the provider's cached secret (NoEntry: none)

vars == <<lang, paramStore, secretStore, records, redelivered, idx, pc, inflight, trace,
          labels, errs, apiUrl, apiKey, result, paramReads, secretReads,
          paramCache, secretCache>>

\* ---- pure parts of the code ----

\* catch clause of the record processor
IsSoftFailureOnlyNoPerson(l, error) == error = "NoPersonFoundError"
IsSoftFailureCatchAll(l, error) == error # "ok"
IsImageDetectionException(error) ==
    error \in {"NoPersonFoundError", "NoLabelsFoundError"}
IsSoftFailure(l, error) ==
    IF l = "ts"
    THEN error = "NoPersonFoundError" \/ error = "NoLabelsFoundError"
    ELSE IsImageDetectionException(error)

\* what the record processor does once getLabels has returned
NextStepAlwaysReport(l, out) ==
    IF out = "ok" \/ IsSoftFailure(l, out) THEN "report" ELSE "throw"
NextStepRethrowNoLabels(l, out) ==
    IF out = "ok" THEN "return"
    ELSE IF out = "NoPersonFoundError" THEN "report" ELSE "throw"
NextStep(l, out) ==
    IF out = "ok" THEN "return"
    ELSE IF IsSoftFailure(l, out) THEN "report"
    ELSE "throw"

\* getParameter / getSecret of the TypeScript variant
Lookup(kind, what) ==
    CASE kind = "notfound" -> [err |-> what \o "NotFound", value |-> "-"]
      [] kind = "empty" -> [err |-> "Unable to get " \o what, value |-> "-"]
      [] kind = "notJson" -> [err |-> "SyntaxError", value |-> "-"]
      [] kind = "jsonNoKey" -> [err |-> "none", value |-> "undefined"]
      [] OTHER -> [err |-> "none", value |-> "value"]
getParameter(kind) == Lookup(kind, "parameter")
getSecret(kind) == Lookup(kind, "secret")

\* ssmProvider / secretsProvider .get of the Java variant, reading the store
ProviderFetch(kind, what) ==
    IF kind = "notfound"
    THEN [err |-> what \o "NotFound", value |-> "-"]
    ELSE [err |-> "none", value |-> "value"]

\* the providers of the Java variant are asked with withMaxAge(900, SECONDS):
\* a value read from the store answers later lookups until it is MaxAge old
UsesProviderCache(l) == l = "java"
CacheHit(l, age) == UsesProviderCache(l) /\ age # NoEntry /\ age < MaxAge
LookupSource(l, age) == IF CacheHit(l, age) THEN "cache" ELSE "store"

\* the error the handler's caller sees when a record's processing threw
HandlerCatchRethrow(error) == error
HandlerCatch(error) == GenericError

\* does a failed record end the invocation
AbortsBatchNever(l) == FALSE
AbortsBatch(l) == l = "ts"

\* the calls started when the loop reaches record i
LabelCallsAll(recs, i) ==
    {[rec |-> j, kind |-> "getLabels", src |-> "-"] : j \in i..Len(recs)}
LabelCallsOnce(recs, i) ==
    IF redelivered'
    THEN {}
    ELSE {[rec |-> i, kind |-> "getLabels", src |-> "-"]}
LabelCalls(recs, i) == {[rec |-> i, kind |-> "getLabels", src |-> "-"]}

\* ---- events ----
StartEv(c, url, key) ==
    [ev |-> "start", kind |-> c.kind, rec |-> c.rec,
     res |-> "-", apiUrl |-> url, apiKey |-> key]
EndEv(c, r) ==
    [ev |-> "end", kind |-> c.kind, rec |-> c.rec,
     res |-> r, apiUrl |-> "-", apiKey |-> "-"]

RECURSIVE StartEvents(_)
StartEvents(S) ==
    IF S = {} THEN <<>>
    ELSE LET c == CHOOSE x \in S : \A y \in S : x.rec <= y.rec
         IN <<StartEv(c, "-", "-")>> \o StartEvents(S \ {c})

\* ---- control flow shared by the actions ----

PcOf(kind) ==
    CASE kind = "getLabels" -> "labels"
      [] kind = "getParameter" -> "param"
      [] kind = "getSecret" -> "secret"
      [] OTHER -> "report"

\* the for loop reaches position i of recs; tr and fl are the trace and the
\* calls in flight so far
Proceed(recs, i, tr, fl) ==
    /\ idx' = i
    /\ apiUrl' = "-"
    /\ apiKey' = "-"
    /\ IF i > Len(recs)
       THEN /\ pc' = "done"
            /\ result' = "ok"
            /\ inflight' = fl
            /\ trace' = tr
       ELSE /\ pc' = "labels"
            /\ result' = "none"
            /\ inflight' = fl \cup LabelCalls(recs, i)
            /\ trace' = tr \o StartEvents(LabelCalls(recs, i))

\* the record processor returns normally
RecordDone(tr, fl) ==
    /\ errs' = Append(errs, "none")
    /\ UNCHANGED <<paramReads, secretReads>>
    /\ Proceed(records, idx + 1, tr, fl)

\* the record processor throws error
Fail(error, tr, fl) ==
    /\ errs' = Append(errs, error)
    /\ UNCHANGED <<paramReads, secretReads>>
    /\ IF AbortsBatch(lang)
       THEN /\ pc' = "done"
            /\ result' = HandlerCatch(error)
            /\ idx' = idx
            /\ inflight' = fl
            /\ trace' = tr
            /\ apiUrl' = "-"
            /\ apiKey' = "-"
       ELSE Proceed(records, idx + 1, tr, fl)

\* the record processor starts its next external call c and waits for it; a
\* lookup that is not answered from a cache reads the store
NextCall(c, tr, fl, url, key) ==
    /\ paramReads' =
         IF c.kind = "getParameter" /\ c.src = "store" THEN paramReads + 1 ELSE paramReads
    /\ secretReads' =
         IF c.kind = "getSecret" /\ c.src = "store" THEN secretReads + 1 ELSE secretReads
    /\ pc' = PcOf(c.kind)
    /\ inflight' = fl \cup {c}
    /\ trace' = Append(tr, StartEv(c, url, key))
    /\ apiUrl' = url
    /\ apiKey' = key
    /\ UNCHANGED <<idx, result, errs>>

\* what a lookup returns: from the provider's cache, or from the store
LookupResult(l, c, kind, what) ==
    IF c.src = "cache" THEN [err |-> "none", value |-> "value"]
    ELSE IF l = "ts" THEN Lookup(kind, what)
    ELSE ProviderFetch(kind, what)

CacheAfter(l, c, r, age) ==
    IF UsesProviderCache(l) /\ c.src = "store" /\ r.err = "none" THEN 0 ELSE age

Aged(age) ==
    IF age = NoEntry THEN NoEntry
    ELSE IF age + TickSeconds >= MaxAge THEN NoEntry
    ELSE age + TickSeconds

\* ---- state machine ----

Init ==
    /\ lang \in Langs
    /\ paramStore \in StoreKindsOf(lang)
    /\ secretStore \in StoreKindsOf(lang)
    /\ records = <<>>
    /\ redelivered = FALSE
    /\ idx = 0
    /\ pc = "idle"
    /\ inflight = {}
    /\ trace = <<>>
    /\ labels = <<>>
    /\ errs = <<>>
    /\ apiUrl = "-"
    /\ apiKey = "-"
    /\ result = "none"
    /\ paramReads = 0
    /\ secretReads = 0
    /\ paramCache = NoEntry
    /\ secretCache = NoEntry

\* handler / handleRequest is invoked with a batch
Invoke(batch) ==
    /\ pc \in {"idle", "done"}
    /\ records' = batch
    /\ redelivered' = FALSE
    /\ labels' = <<>>
    /\ errs' = <<>>
    /\ paramReads' = 0
    /\ secretReads' = 0
    /\ Proceed(batch, 1, <<>>, {})
    /\ UNCHANGED <<lang, paramStore, secretStore, paramCache, secretCache>>

\* the same batch is delivered to the handler again
Redeliver ==
    /\ pc = "done"
    /\ redelivered' = TRUE
    /\ labels' = <<>>
    /\ errs' = <<>>
    /\ paramReads' = 0
    /\ secretReads' = 0
    /\ Proceed(records, 1, <<>>, {})
    /\ UNCHANGED <<lang, paramStore, secretStore, records, paramCache, secretCache>>

\* getLabels returns or throws
GetLabelsReturns(out) ==
    /\ pc = "labels"
    /\ UNCHANGED <<lang, paramStore, secretStore, records, redelivered, paramCache, secretCache>>
    /\ \E c \in inflight :
        /\ c.kind = "getLabels" /\ c.rec = idx
        /\ LET tr == Append(trace, EndEv(c, out))
               fl == inflight \ {c}
           IN /\ labels' = Append(labels, out)
              /\ CASE NextStep(lang, out) = "return" -> RecordDone(tr, fl)
                   [] NextStep(lang, out) = "report" ->
                        NextCall([rec |-> idx, kind |-> "getParameter",
                                  src |-> LookupSource(lang, paramCache)],
                                 tr, fl, "-", "-")
                   [] OTHER -> Fail(out, tr, fl)

\* the parameter lookup returns or throws
ParamReturns ==
    /\ pc = "param"
    /\ UNCHANGED <<lang, paramStore, secretStore, records, redelivered, labels, secretCache>>
    /\ \E c \in inflight :
        /\ c.kind = "getParameter" /\ c.rec = idx
        /\ LET r == LookupResult(lang, c, paramStore, "parameter")
               tr == Append(trace, EndEv(c, IF r.err = "none" THEN "ok" ELSE r.err))
               fl == inflight \ {c}
           IN /\ paramCache' = CacheAfter(lang, c, r, paramCache)
              /\ IF r.err # "none"
                 THEN Fail(r.err, tr, fl)
                 ELSE NextCall([rec |-> idx, kind |-> "getSecret",
                                src |-> LookupSource(lang, secretCache)],
                               tr, fl, r.value, "-")

\* the secret lookup returns or throws
SecretReturns ==
    /\ pc = "secret"
    /\ UNCHANGED <<lang, paramStore, secretStore, records, redelivered, labels, paramCache>>
    /\ \E c \in inflight :
        /\ c.kind = "getSecret" /\ c.rec = idx
        /\ LET r == LookupResult(lang, c, secretStore, "secret")
               tr == Append(trace, EndEv(c, IF r.err = "none" THEN "ok" ELSE r.err))
               fl == inflight \ {c}
           IN /\ secretCache' = CacheAfter(lang, c, r, secretCache)
              /\ IF r.err # "none"
                 THEN Fail(r.err, tr, fl)
                 ELSE NextCall([rec |-> idx, kind |-> "reportImageIssue", src |-> "-"],
                               tr, fl, apiUrl, r.value)

\* reportImageIssue returns or throws
ReportReturns(ok) ==
    /\ pc = "report"
    /\ UNCHANGED <<lang, paramStore, secretStore, records, redelivered, labels,
                   paramCache, secretCache>>
    /\ \E c \in inflight :
        /\ c.kind = "reportImageIssue" /\ c.rec = idx
        /\ LET tr == Append(trace, EndEv(c, IF ok THEN "ok" ELSE "ReportError"))
               fl == inflight \ {c}
           IN IF ok THEN RecordDone(tr, fl) ELSE Fail("ReportError", tr, fl)

\* time passes: cached provider values age and expire after MaxAge seconds
Tick ==
    /\ paramCache # NoEntry \/ secretCache # NoEntry
    /\ paramCache' = Aged(paramCache)
    /\ secretCache' = Aged(secretCache)
    /\ UNCHANGED <<lang, paramStore, secretStore, records, redelivered, idx, pc, inflight,
                   trace, labels, errs, apiUrl, apiKey, result, paramReads, secretReads>>

Next ==
    \/ \E batch \in Batches : Invoke(batch)
    \/ Redeliver
    \/ \E out \in LabelOutcomes : GetLabelsReturns(out)
    \/ ParamReturns
    \/ SecretReturns
    \/ \E ok \in BOOLEAN : ReportReturns(ok)
    \/ Tick

Spec == Init /\ [][Next]_vars

\* ---- reading the trace ----

FullBranch == <<"getLabels", "getParameter", "getSecret", "reportImageIssue">>

\* the start events of record i, in order
Starts(i) == SelectSeq(trace, LAMBDA e : e.ev = "start" /\ e.rec = i)
KindsOf(i) == LET ss == Starts(i) IN [k \in 1..Len(ss) |-> ss[k].kind]

\* the start events of one kind of call
StartsOfKind(kind) == SelectSeq(trace, LAMBDA e : e.ev = "start" /\ e.kind = kind)

\* a lookup or the report of record i returned an error
CallFailed(i) ==
    \E k \in 1..Len(trace) :
        /\ trace[k].ev = "end" /\ trace[k].rec = i
        /\ trace[k].kind # "getLabels" /\ trace[k].res # "ok"
LookupFailed(i) ==
    \E k \in 1..Len(trace) :
        /\ trace[k].ev = "end" /\ trace[k].rec = i
        /\ trace[k].kind \in {"getParameter", "getSecret"} /\ trace[k].res # "ok"

\* every call of record i that was started has returned
AllReturned(i) ==
    \A k \in 1..Len(trace) :
        (trace[k].ev = "start" /\ trace[k].rec = i) =>
            \E m \in (k + 1)..Len(trace) :
                /\ trace[m].ev = "end" /\ trace[m].rec = i
                /\ trace[m].kind = trace[k].kind

Finished == 1..Len(errs)
SoftRecords == {i \in 1..Len(labels) : labels[i] \in SoftErrors}
Attempted(i) == i <= Len(labels) \/ (pc = "labels" /\ i = idx)
\* the store holds no value for the requested name: no entry, an entry without
\* a value, or a stored document that lacks the name as a key
StoreHoldsNoValue(kind) == kind \in {"notfound", "empty", "jsonNoKey"}

\* ---- claims ----

\* C1 as stated: every finished record whose labeling call raised
\* NoPersonFoundError or NoLabelsFoundError made exactly the calls getLabels,
\* getParameter, getSecret, reportImageIssue and propagated no error.
C1_AsStated ==
    \A i \in Finished :
        labels[i] \in SoftErrors => (KindsOf(i) = FullBranch /\ errs[i] = "none")

\* C1 (amended): every finished record whose labeling call raised
\* NoPersonFoundError or NoLabelsFoundError, and none of whose lookups or report
\* call failed, made exactly one parameter lookup, then one secret lookup, then
\* one reportImageIssue call, in that order, and propagated no error.
C1_SoftFailureReports ==
    \A i \in Finished :
        (labels[i] \in SoftErrors /\ ~CallFailed(i)) =>
            (KindsOf(i) = FullBranch /\ AllReturned(i) /\ errs[i] = "none")

C1_Witness ==
    \E i \in Finished :
        /\ labels[i] = "NoLabelsFoundError"
        /\ ~CallFailed(i)
        /\ KindsOf(i) = FullBranch
        /\ errs[i] = "none"

\* C2: a record whose labeling call raised an error other than the two soft
\* ones made no parameter lookup, no secret lookup and no report call, and the
\* same error left the record processor.
C2_HardFailurePropagates ==
    \A i \in Finished :
        labels[i] \notin (SoftErrors \cup {"ok"}) =>
            (KindsOf(i) = <<"getLabels">> /\ errs[i] = labels[i])

C2_Witness ==
    \E i \in Finished :
        /\ labels[i] = "TypeError"
        /\ errs[i] = "TypeError"
        /\ KindsOf(i) = <<"getLabels">>

\* C3: a record whose labeling call succeeded made no parameter lookup, no
\* secret lookup and no report call, and completed without error.
C3_SuccessDoesNothingMore ==
    \A i \in Finished :
        labels[i] = "ok" => (KindsOf(i) = <<"getLabels">> /\ errs[i] = "none")

C3_Witness ==
    \E i \in Finished :
        /\ labels[i] = "ok" /\ errs[i] = "none"
        /\ \E j \in Finished : labels[j] \in SoftErrors /\ KindsOf(j) = FullBranch

\* C4: in the TypeScript handler, when record k is the first whose processing
\* failed, every record before k was fully processed, no call was made for any
\* record after k, and the invocation has failed.
C4_FirstFailureAborts ==
    lang = "ts" =>
        \A k \in Finished :
            errs[k] # "none" =>
                /\ k = Len(errs) /\ Len(labels) = k
                /\ pc = "done" /\ result \notin {"none", "ok"}
                /\ inflight = {}
                /\ \A j \in 1..(k - 1) :
                    /\ errs[j] = "none"
                    /\ AllReturned(j)
                    /\ KindsOf(j) =
                         IF labels[j] \in SoftErrors THEN FullBranch ELSE <<"getLabels">>
                /\ AllReturned(k)
                /\ \A m \in 1..Len(trace) : trace[m].rec <= k

C4_Witness ==
    /\ lang = "ts" /\ Len(records) = 3 /\ Len(errs) = 2
    /\ labels[1] \in SoftErrors /\ errs[1] = "none"
    /\ labels[2] \in HardErrors /\ errs[2] # "none"
    /\ pc = "done" /\ result = GenericError

\* C5: when the parameter store (the secret store) holds no value for the
\* requested name, the parameter lookup (the secret lookup) of a soft-failure
\* branch ends with an error instead of returning a value, and reportImageIssue
\* is never called for that record.
C5_MissingValueFails ==
    \A k \in 1..Len(trace) :
        LET e == trace[k]
            store == IF e.kind = "getParameter" THEN paramStore ELSE secretStore
        IN (/\ e.ev = "end"
            /\ e.kind \in {"getParameter", "getSecret"}
            /\ StoreHoldsNoValue(store)) =>
               /\ e.res # "ok"
               /\ \A m \in 1..Len(trace) :
                    ~(trace[m].rec = e.rec /\ trace[m].kind = "reportImageIssue")

\* C6: when the invocation is over and every labeling call so far succeeded or
\* soft-failed and no lookup or report failed, every record of the batch was
\* attempted exactly once, in order, and the invocation completed without error.
C6_SoftFailureNeverStopsBatch ==
    (/\ pc = "done"
     /\ \A i \in 1..Len(labels) : labels[i] \in SoftErrors \cup {"ok"}
     /\ \A i \in 1..Len(labels) : ~CallFailed(i)) =>
        /\ Len(labels) = Len(records)
        /\ LET ls == StartsOfKind("getLabels")
           IN /\ Len(ls) = Len(records)
              /\ \A k \in 1..Len(ls) : ls[k].rec = k
        /\ \A i \in 1..Len(records) : i \in Finished /\ errs[i] = "none"
        /\ result = "ok"

C6_Witness ==
    /\ lang = "ts" /\ pc = "done" /\ result = "ok"
    /\ Len(records) = 3 /\ Len(errs) = 3
    /\ labels[1] = "NoPersonFoundError" /\ labels[2] = "NoLabelsFoundError"
    /\ labels[3] = "ok"
    /\ KindsOf(1) = FullBranch /\ KindsOf(2) = FullBranch

\* C7: at most one external call is in flight; every call returns before the
\* next one starts; and calls are made in batch order.
C7_StrictlySequential ==
    /\ Cardinality(inflight) <= 1
    /\ \A k \in 1..Len(trace) :
        /\ (k % 2 = 1) => trace[k].ev = "start"
        /\ (k % 2 = 0) =>
             /\ trace[k].ev = "end"
             /\ trace[k].rec = trace[k - 1].rec
             /\ trace[k].kind = trace[k - 1].kind
        /\ k > 1 => trace[k - 1].rec <= trace[k].rec
    /\ (Len(trace) % 2 = 1) =>
         \E c \in inflight :
            /\ inflight = {c}
            /\ c.rec = trace[Len(trace)].rec /\ c.kind = trace[Len(trace)].kind
    /\ (Len(trace) % 2 = 0) => inflight = {}

C7_Witness ==
    /\ pc = "labels" /\ idx = 2
    /\ labels[1] \in SoftErrors /\ KindsOf(1) = FullBranch
    /\ Cardinality(inflight) = 1

C9_OneLabelingCallPerRecord ==
    /\ \A i \in 1..Len(records) :
        Len(SelectSeq(Starts(i), LAMBDA e : e.kind = "getLabels")) =
            IF Attempted(i) THEN 1 ELSE 0
    /\ Len(StartsOfKind("getLabels")) <= Len(records)
    /\ redelivered =>
         \A i \in Finished :
            (labels[i] \in SoftErrors /\ ~CallFailed(i)) => KindsOf(i) = FullBranch

C9_Witness ==
    /\ redelivered
    /\ \E i \in Finished : labels[i] \in SoftErrors /\ KindsOf(i) = FullBranch
    /\ \E i \in Finished : labels[i] \in HardErrors /\ KindsOf(i) = <<"getLabels">>

\* C10: in the TypeScript handler the only error the caller ever sees is the
\* generic 'Error processing record', and a finished invocation has failed if
\* and only if the processing of some record threw.
C10_GenericErrorOnly ==
    lang = "ts" =>
        /\ result \in {"none", "ok", GenericError}
        /\ pc = "done" =>
            /\ result \in {"ok", GenericError}
            /\ (result = GenericError) <=> (\E i \in Finished : errs[i] # "none")

C10_Witness ==
    /\ lang = "ts" /\ pc = "done" /\ result = GenericError
    /\ \E i \in Finished : errs[i] = "SyntaxError"

====
